---------------------------- MODULE Spec2Model ----------------------------
(***************************************************************************)
(* Model of the Pertelian X2040 display driver (package pertelian).        *)
(*                                                                         *)
(* The driver is a facade over one USB out endpoint.  A public method      *)
(* checks its arguments, builds a byte buffer and hands it to Write,       *)
(* which sends it to the endpoint one byte per endpoint write.  The model  *)
(* follows one driver instance used by one caller: a call is entered by    *)
(* the action named after the method, every iteration of the loop of       *)
(* Write is one WriteByte step whose outcome the endpoint chooses, and     *)
(* WriteReturn carries the result of Write back through inst/do and the    *)
(* composed methods to the caller.                                         *)
(*                                                                         *)
(* Bytes are naturals in 0..255, strings and byte slices are sequences of  *)
(* bytes, uint8 arithmetic is taken modulo 256.                            *)
(***************************************************************************)
EXTENDS Naturals, Integers, Sequences, FiniteSets

VARIABLES
    pc,             \* "start": NewX2040 not yet called; "idle": no call in progress;
                    \* "Write": inside the loop of Write; "Return": Write is returning;
                    \* "done": the call has returned
    pert,           \* the fields of the PertelianX2040 value: each "nil" or "set"
    usb,            \* the USB resources: the device handle is open, the interface is
                    \* claimed, how often the release function and device.Close were called
    reported,       \* the sum of the counts the endpoint reported to the running Write
    op,             \* the public call last entered: [name, line, char, text]
    result,         \* what that call returned: "none" before it returns
    out,            \* the string returned by GetCharacters
    todo,           \* the calls the running method has yet to make
    data,           \* the buffer of the running Write
    chk,            \* TRUE when the running Write was called by inst
    i,              \* loop index of the running Write
    written,        \* the counter `written` of the running Write
    err,            \* the error the running Write is about to return
    log,            \* endpoint events (delays and writes) of the last Write entered
    trans,          \* the buffers handed to Write since the call was entered, in order
    errSeen,        \* an endpoint write has failed since the call was entered
    wroteAfterErr,  \* an endpoint write was made after a failed one, in the same call
    shortSeen       \* an endpoint write returned nil with a count other than 1

vars == <<pc, pert, usb, reported, op, result, out, todo, data, chk, i, written, err,
          log, trans, errSeen, wroteAfterErr, shortSeen>>

-----------------------------------------------------------------------------
(* Bounds of the inputs.                                                   *)

MaxTextLen == 21

MaxSlots == 21

-----------------------------------------------------------------------------
(* Constants and tables of the driver.                                     *)

x2040Command == 254

x2040Clear == 1

x2040LightOff == 2

x2040LightOn == 3

x2040Entry == 6

x2040Off == 8

x2040On == 12

x2040Init == 56

charSize == 8

\* offsets with the second half of each row 0x10 instead of 0x14 further on.
offsets_Stride16 == <<128, 128 + 64, 128 + 16, 128 + 80>>

offsets == <<128, 128 + 64, 128 + 20, 128 + 84>>

nil == "nil"

ErrX2040UnknownWriteError == "ErrX2040UnknownWriteError"

ErrX2040OutOfRange == "ErrX2040OutOfRange"

ErrX2040InvalidCharacterPosition == "ErrX2040InvalidCharacterPosition"

ErrX2040CharWant8Lines == "ErrX2040CharWant8Lines"

ErrX2040CharWidth5 == "ErrX2040CharWidth5"

\* An error of the USB layer, passed through by the driver.
TransportError == "TransportError"

\* uint8 arithmetic.
Byte(x) == x % 256

-----------------------------------------------------------------------------
(* A method that transmits is described by what it does before Write:      *)
(* either it returns an error, or it calls Write on a buffer.              *)

Fail(e) == [err |-> e, data |-> <<>>, chk |-> FALSE]

Send(bytes) == [err |-> nil, data |-> bytes, chk |-> FALSE]

\* inst: Write of the prefix and the opcode, the count checked afterwards.
inst(action) == [err |-> nil, data |-> <<x2040Command, action>>, chk |-> TRUE]

\* do: the actions go to inst one at a time.
do(actions) == [k \in 1..Len(actions) |-> inst(actions[k])]

\* Print (the method)
PrintText(text) == Send(<<x2040Command, x2040Entry>> \o text)

\* PrintAt with the last column refused: >= for > in the third check.
PrintAt_Boundary(line, char, textString) ==
    IF line > 3 THEN Fail(ErrX2040OutOfRange)
    ELSE IF Len(textString) > 20 THEN Fail(ErrX2040OutOfRange)
    ELSE IF Byte(char + Byte(Len(textString))) >= 20 THEN Fail(ErrX2040OutOfRange)
    ELSE Send(<<x2040Command, Byte(offsets[line + 1] + char)>> \o textString)

PrintAt(line, char, textString) ==
    IF line > 3 THEN Fail(ErrX2040OutOfRange)
    ELSE IF Len(textString) > 20 THEN Fail(ErrX2040OutOfRange)
    ELSE IF Byte(char + Byte(Len(textString))) > 20 THEN Fail(ErrX2040OutOfRange)
    ELSE Send(<<x2040Command, Byte(offsets[line + 1] + char)>> \o textString)

\* Centered rounding the column up: 21 for 20.
Centered_RoundUp(line, text) ==
    IF Len(text) > 20 THEN Fail(ErrX2040OutOfRange)
    ELSE PrintAt(line, Byte((21 - Len(text)) \div 2), text)

Centered(line, text) ==
    IF Len(text) > 20 THEN Fail(ErrX2040OutOfRange)
    ELSE PrintAt(line, Byte((20 - Len(text)) \div 2), text)

\* strings.Repeat(" ", 20)
Spaces == [k \in 1..20 |-> 32]

Blank(line) ==
    IF line > 3 THEN Fail(ErrX2040OutOfRange)
    ELSE PrintAt(line, 0, Spaces)

Light(state) == IF state THEN inst(x2040LightOn) ELSE inst(x2040LightOff)

\* SetCharacter with eight slots: > 7 for > 6.
SetCharacter_EightSlots(position, char) ==
    IF position > 7 THEN Fail(ErrX2040InvalidCharacterPosition)
    ELSE Send(<<x2040Command, Byte(Byte(position * 8) + 72)>> \o SubSeq(char, 1, 8))

\* char is the Lines array of the character.
SetCharacter(position, char) ==
    IF position > 6 THEN Fail(ErrX2040InvalidCharacterPosition)
    ELSE Send(<<x2040Command, Byte(Byte(position * 8) + 72)>> \o SubSeq(char, 1, 8))

\* On with CLEAR sent before INIT.
On_Reordered == do(<<x2040On, x2040Clear, x2040Init, x2040LightOn>>)

On == do(<<x2040On, x2040Init, x2040Clear, x2040LightOn>>)

Off == do(<<x2040LightOff, x2040Off>>)

Clear == inst(x2040Clear)

-----------------------------------------------------------------------------
(* x2040char.go: rows are strings, here sequences of bytes.                *)

RECURSIVE RowBits(_, _)
\* the loop over j of NewX2040Char, from column j (0-based) on
RowBits(line, j) ==
    IF j >= 5 THEN 0
    ELSE (IF line[j + 1] # 32 THEN 2 ^ (4 - j) ELSE 0) + RowBits(line, j + 1)

RECURSIVE CharLoop(_, _, _)
\* the loop over the rows of NewX2040Char, from row k (1-based) on
CharLoop(lines, char, k) ==
    IF k > Len(lines) THEN [char |-> char, err |-> nil]
    ELSE IF Len(lines[k]) # 5 THEN [char |-> char, err |-> ErrX2040CharWidth5]
    ELSE CharLoop(lines, [char EXCEPT ![k] = RowBits(lines[k], 0)], k + 1)

NewX2040Char(lines) ==
    LET char == [k \in 1..charSize |-> 0]
    IN  IF Len(lines) # charSize THEN [char |-> char, err |-> ErrX2040CharWant8Lines]
        ELSE CharLoop(lines, char, 1)

\* The bytes of a rune in a Go string (UTF-8, runes below 0x800).
Utf8(r) == IF r < 128 THEN <<r>> ELSE <<192 + (r \div 64), 128 + (r % 64)>>

RECURSIVE RowString(_)
\* The Go string holding the runes: len() and indexing see its bytes.
RowString(runes) ==
    IF runes = <<>> THEN <<>> ELSE Utf8(runes[1]) \o RowString(Tail(runes))

-----------------------------------------------------------------------------
(* GetCharacters: a panic of the runtime is the result "panic".            *)

RECURSIVE GetCharactersLoop(_, _, _)
\* the loop of GetCharacters from index k (1-based) on; output has `length` bytes
GetCharactersLoop(slots, output, k) ==
    IF k > Len(slots) THEN [panic |-> FALSE, str |-> output]
    ELSE IF k > Len(output) THEN [panic |-> TRUE, str |-> <<>>]
    ELSE GetCharactersLoop(slots, [output EXCEPT ![k] = Byte(slots[k] + 1)], k + 1)

GetCharacters(slots) ==
    LET length == IF Len(slots) > 20 THEN 20 ELSE Len(slots)
    IN  IF Len(slots) = 0 THEN [panic |-> FALSE, str |-> <<>>]
        ELSE GetCharactersLoop(slots, [k \in 1..length |-> 0], 1)

-----------------------------------------------------------------------------
(* The composed methods.  The rows of the line drawing characters:         *)
(* "     ", "   ##", "  #  ", "#####" and "##   ".                         *)

rowNone == <<32, 32, 32, 32, 32>>

rowRight == <<32, 32, 32, 35, 35>>

rowMid == <<32, 32, 35, 32, 32>>

rowAll == <<35, 35, 35, 35, 35>>

rowLeft == <<35, 35, 32, 32, 32>>

\* The arguments of the seven NewX2040Char calls of SetLineDrawingCharacters.
LineDrawingRows ==
    << <<rowNone, rowNone, rowNone, rowRight, rowMid, rowMid, rowMid, rowMid>>,
       <<rowNone, rowNone, rowNone, rowAll, rowNone, rowNone, rowNone, rowNone>>,
       <<rowNone, rowNone, rowNone, rowLeft, rowMid, rowMid, rowMid, rowMid>>,
       <<rowMid, rowMid, rowMid, rowMid, rowMid, rowMid, rowMid, rowMid>>,
       <<rowMid, rowMid, rowMid, rowMid, rowRight, rowNone, rowNone, rowNone>>,
       <<rowNone, rowNone, rowNone, rowNone, rowAll, rowNone, rowNone, rowNone>>,
       <<rowMid, rowMid, rowMid, rowMid, rowLeft, rowNone, rowNone, rowNone>> >>

\* Seven SetCharacter calls, slot 0 to 6; what each returns is dropped.
SetLineDrawingCharacters ==
    [k \in 1..7 |-> SetCharacter(k - 1, NewX2040Char(LineDrawingRows[k]).char)]

\* "Pertelian  X2040"
Title == <<80, 101, 114, 116, 101, 108, 105, 97, 110, 32, 32, 88, 50, 48, 52, 48>>

\* slot a, then eighteen times slot b, then slot c
Border(a, b, c) == <<a>> \o [k \in 1..18 |-> b] \o <<c>>

\* version is runtime.Version(); what each call returns is dropped.
Splash(version) ==
    SetLineDrawingCharacters \o
    << PrintAt(0, 0, GetCharacters(Border(0, 1, 2)).str),
       PrintAt(1, 0, GetCharacters(<<3>>).str),
       Centered(1, Title),
       PrintAt(1, 19, GetCharacters(<<3>>).str),
       PrintAt(2, 0, GetCharacters(<<3>>).str),
       Centered(2, version),
       PrintAt(2, 19, GetCharacters(<<3>>).str),
       PrintAt(3, 0, GetCharacters(Border(4, 5, 6)).str) >>

\* The methods that drop the errors of the calls they make.
Swallows(name) == name \in {"SetLineDrawingCharacters", "Splash"}

-----------------------------------------------------------------------------
(* Inputs.                                                                 *)

\* A text of n bytes, all different: "ABC..."
Text(n) == [k \in 1..n |-> 64 + k]

TextInputs == {Text(n) : n \in 0..MaxTextLen}

LineInputs == (0..5) \cup {255}

CharInputs == 0..255

PositionInputs == 0..255

\* Lines arrays of custom characters.
GlyphInputs == {NewX2040Char(LineDrawingRows[1]).char, <<1, 2, 4, 8, 16, 31, 21, 10>>}

\* n slot indices, cycling through 0..6 from `first`.
SlotSeq(n, first) == [k \in 1..n |-> (first + k - 1) % 7]

SlotInputs == {SlotSeq(n, first) : n \in 0..MaxSlots, first \in 0..6}

\* Bit b of the byte m is set.
Bit(m, b) == (m \div (2 ^ b)) % 2 = 1

\* The row of '#' and ' ' whose dots are the bits 4..0 of m, left to right.
Pattern(m) == [c \in 1..5 |-> IF Bit(m, 5 - c) THEN 35 ELSE 32]

\* n rows of '#' and ' ', all well formed.
Rows(n, first, step) == [k \in 1..n |-> Pattern((first + k * step) % 32)]

\* Rows, as runes, that are not five of '#' and ' ': "##", "# ####", "",
\* "X .1#", and with the two byte rune U+00E9: five runes in six bytes, four
\* runes in five bytes.
OddRows ==
    { <<35, 35>>, <<35, 32, 35, 35, 35, 35>>, <<>>, <<88, 32, 46, 49, 35>>,
      <<233, 35, 35, 35, 35>>, <<32, 32, 233, 32, 35>>, <<233, 32, 35, 35>> }

\* The arguments of NewX2040Char, each row a sequence of runes.
GlyphRowInputs ==
    {Rows(n, first, step) : n \in {7, 8, 9}, first \in 0..31, step \in {0, 1, 7, 11}}
    \cup {[Rows(8, first, step) EXCEPT ![k] = odd] :
              k \in 1..8, odd \in OddRows, first \in 0..31, step \in {0, 1, 7, 11}}

\* runtime.Version(): a release name such as "go1.21.0", or a longer development name.
VersionInputs == {Text(8), Text(MaxTextLen)}

\* What the endpoint may answer to a write of one byte: (count, error).
Outcomes ==
    { [n |-> 1, err |-> FALSE], [n |-> 0, err |-> FALSE],
      [n |-> 0, err |-> TRUE],  [n |-> 1, err |-> TRUE] }

-----------------------------------------------------------------------------
(* Write and the return path.                                              *)

\* Write with the sleep before the first two bytes only: < for <=.
NeedsDelay_TwoBytes(idx) == idx < 2

\* Write sleeps before it sends the byte at index idx (0-based) when idx <= 2.
NeedsDelay(idx) == idx <= 2

\* Write handing data[idx:] to the endpoint: the upper bound of the slice left out.
Chunk_Rest(d, idx) == SubSeq(d, idx + 1, Len(d))

\* data[idx : idx+1], the slice Write hands to the endpoint.
Chunk(d, idx) == SubSeq(d, idx + 1, idx + 1)

\* Write keeping the last count: = for +=.
Accumulate_Last(sum, w) == w

\* written += w
Accumulate(sum, w) == sum + w

\* What inst returns when Write has returned (w, e).
InstResult(w, e) ==
    IF e # nil THEN e
    ELSE IF w # 2 THEN ErrX2040UnknownWriteError
    ELSE nil

\* A count check added to the methods that drop the count, answering with
\* the error of the argument checks.
CallResult_CountAsRange(checked, w, e) ==
    IF checked THEN InstResult(w, e)
    ELSE IF e # nil THEN e
    ELSE IF w = 0 THEN ErrX2040OutOfRange
    ELSE nil

\* What a method returns when the Write it called has returned (w, e):
\* inst checks the count, the others drop it.
CallResult(checked, w, e) == IF checked THEN InstResult(w, e) ELSE e

Delay == [ev |-> "delay", data |-> <<>>]

WriteEvent(bytes) == [ev |-> "write", data |-> bytes]

RECURSIVE SkipFailed(_)
\* A method that drops errors goes on to its next call when one returns early.
SkipFailed(calls) ==
    IF calls = <<>> THEN <<>>
    ELSE IF calls[1].err # nil THEN SkipFailed(Tail(calls))
    ELSE calls

\* The running method returns r to its caller.
Done(r, keep) ==
    /\ pc' = "done"
    /\ result' = r
    /\ todo' = <<>>
    /\ data' = keep.data
    /\ chk' = keep.chk
    /\ i' = keep.i
    /\ written' = keep.written
    /\ err' = keep.err
    /\ log' = keep.log
    /\ trans' = keep.trans
    /\ reported' = keep.reported

\* The running method calls Write(c.data).
StartWrite(c, rest, keep) ==
    /\ pc' = IF Len(c.data) = 0 THEN "Return" ELSE "Write"
    /\ result' = "none"
    /\ todo' = rest
    /\ data' = c.data
    /\ chk' = c.chk
    /\ i' = 0
    /\ written' = 0
    /\ err' = nil
    /\ log' = <<>>
    /\ trans' = Append(keep.trans, c.data)
    /\ reported' = 0

\* The method `name` goes on after a call of its own returned r, with the
\* calls `rest` left to make: do and the simple methods return the first
\* error, the composed methods drop it.
Run(name, rest, r, keep) ==
    LET q == IF Swallows(name) THEN SkipFailed(rest) ELSE rest
    IN  IF ~Swallows(name) /\ r # nil THEN Done(r, keep)
        ELSE IF q = <<>> THEN Done(IF Swallows(name) THEN "void" ELSE nil, keep)
        ELSE IF q[1].err # nil THEN Done(q[1].err, keep)
        ELSE StartWrite(q[1], Tail(q), keep)

Fresh == [data |-> <<>>, chk |-> FALSE, i |-> 0, written |-> 0, err |-> nil,
          log |-> <<>>, trans |-> <<>>, reported |-> 0]

Current == [data |-> data, chk |-> chk, i |-> i, written |-> written, err |-> err,
            log |-> log, trans |-> trans, reported |-> reported]

\* The caller enters a public method; `calls` is what the method does.
Enter(name, line, char, text, calls) ==
    /\ op' = [name |-> name, line |-> line, char |-> char, text |-> text]
    /\ out' = <<>>
    /\ errSeen' = FALSE
    /\ wroteAfterErr' = FALSE
    /\ shortSeen' = FALSE
    /\ Run(name, calls, nil, Fresh)
    /\ UNCHANGED <<pert, usb>>

\* One iteration of the loop of Write.
WriteByte ==
    /\ pc = "Write"
    /\ i < Len(data)
    /\ \E o \in Outcomes :
        /\ log' = log \o (IF NeedsDelay(i) THEN <<Delay>> ELSE <<>>)
                      \o <<WriteEvent(Chunk(data, i))>>
        /\ written' = Accumulate(written, o.n)
        /\ reported' = reported + o.n
        /\ errSeen' = (errSeen \/ o.err)
        /\ wroteAfterErr' = (wroteAfterErr \/ errSeen)
        /\ shortSeen' = (shortSeen \/ (~o.err /\ o.n # 1))
        /\ IF o.err
           THEN /\ err' = TransportError
                /\ pc' = "Return"
                /\ i' = i
           ELSE /\ err' = nil
                /\ i' = i + 1
                /\ pc' = IF i + 1 < Len(data) THEN "Write" ELSE "Return"
    /\ UNCHANGED <<op, result, out, todo, data, chk, trans, pert, usb>>

\* Write returns (written, err) to the method that called it.
WriteReturn ==
    /\ pc = "Return"
    /\ Run(op.name, todo, CallResult(chk, written, err), Current)
    /\ UNCHANGED <<op, out, errSeen, wroteAfterErr, shortSeen, pert, usb>>

-----------------------------------------------------------------------------
(* Construction and Close.                                                 *)

\* pert := PertelianX2040{}
NoInstance == [device |-> "nil", iface |-> "nil", ifaceDone |-> "nil", ep |-> "nil"]

ErrX2040DeviceNotFound == "ErrX2040DeviceNotFound"

\* What the USB layer may do during NewX2040: OpenDeviceWithVIDPID fails,
\* finds no device, DefaultInterface fails, OutEndpoint fails, or all succeed.
UsbAnswers == {"open fails", "no device", "interface fails", "endpoint fails", "ok"}

\* NewX2040 under the answer `a` of the USB layer, from the resources u:
\* the instance returned, the resources afterwards and the error.
NewX2040(u, a) ==
    IF a = "open fails"
    THEN [pert |-> NoInstance, usb |-> u, err |-> "obtain device"]
    ELSE IF a = "no device"
    THEN [pert |-> NoInstance, usb |-> u, err |-> ErrX2040DeviceNotFound]
    ELSE IF a = "interface fails"
    THEN [pert |-> NoInstance, usb |-> [u EXCEPT !.devOpen = TRUE],
          err |-> "default interface"]
    ELSE IF a = "endpoint fails"
    THEN [pert |-> NoInstance, usb |-> [u EXCEPT !.devOpen = TRUE, !.claimed = TRUE],
          err |-> "open endpoint"]
    ELSE [pert |-> [device |-> "set", iface |-> "set", ifaceDone |-> "set", ep |-> "set"],
          usb |-> [u EXCEPT !.devOpen = TRUE, !.claimed = TRUE],
          err |-> nil]

\* Close on the instance p with the resources u; closed tells whether
\* device.Close succeeds.  Calling the nil ifaceDone panics.
Close(p, u, closed) ==
    IF p.ifaceDone = "nil"
    THEN [panic |-> TRUE, pert |-> p, usb |-> u, err |-> nil]
    ELSE [panic |-> FALSE,
          pert |-> [p EXCEPT !.iface = "nil", !.ifaceDone = "nil"],
          usb |-> [u EXCEPT !.released = @ + 1, !.claimed = FALSE,
                            !.devCloses = @ + 1,
                            !.devOpen = IF closed THEN FALSE ELSE @],
          err |-> IF closed THEN nil ELSE TransportError]

\* A method that does not go through Write returns r.
Answer(name, line, r) ==
    /\ op' = [name |-> name, line |-> line, char |-> 0, text |-> <<>>]
    /\ out' = <<>>
    /\ errSeen' = FALSE
    /\ wroteAfterErr' = FALSE
    /\ shortSeen' = FALSE
    /\ Done(r, Fresh)

CallNewX2040 ==
    /\ pc = "start"
    /\ \E a \in UsbAnswers :
        LET n == NewX2040(usb, a)
        IN  /\ pert' = n.pert
            /\ usb' = n.usb
            /\ Answer("NewX2040", 0, n.err)

\* Close turning the display off before it lets go of the device.
CallClose_TurnsOff ==
    /\ pc = "idle"
    /\ Enter("Close", IF pert.ifaceDone = "set" THEN 1 ELSE 0, 0, <<>>, Off)

\* line holds 1 when the instance was open as Close was entered, 0 when it
\* had been closed before
CallClose ==
    /\ pc = "idle"
    /\ \E closed \in BOOLEAN :
        LET c == Close(pert, usb, closed)
        IN  /\ pert' = c.pert
            /\ usb' = c.usb
            /\ Answer("Close", IF pert.ifaceDone = "set" THEN 1 ELSE 0,
                      IF c.panic THEN "panic" ELSE c.err)

-----------------------------------------------------------------------------
(* The public methods, as the caller enters them.                          *)

CallOn ==
    /\ pc = "idle"
    /\ Enter("On", 0, 0, <<>>, On)

CallOff ==
    /\ pc = "idle"
    /\ Enter("Off", 0, 0, <<>>, Off)

CallClear ==
    /\ pc = "idle"
    /\ Enter("Clear", 0, 0, <<>>, <<Clear>>)

\* line holds the state asked for: 1 for true, 0 for false
CallLight ==
    /\ pc = "idle"
    /\ \E state \in BOOLEAN :
        Enter("Light", IF state THEN 1 ELSE 0, 0, <<>>, <<Light(state)>>)

CallPrint ==
    /\ pc = "idle"
    /\ \E text \in TextInputs :
        Enter("Print", 0, 0, text, <<PrintText(text)>>)

CallPrintAt ==
    /\ pc = "idle"
    /\ \E line \in LineInputs, char \in CharInputs, text \in TextInputs :
        Enter("PrintAt", line, char, text, <<PrintAt(line, char, text)>>)

CallCentered ==
    /\ pc = "idle"
    /\ \E line \in LineInputs, text \in TextInputs :
        Enter("Centered", line, 0, text, <<Centered(line, text)>>)

CallBlank ==
    /\ pc = "idle"
    /\ \E line \in LineInputs :
        Enter("Blank", line, 0, <<>>, <<Blank(line)>>)

\* char holds the position, text the Lines of the character
CallSetCharacter ==
    /\ pc = "idle"
    /\ \E position \in PositionInputs, glyph \in GlyphInputs :
        Enter("SetCharacter", 0, position, glyph, <<SetCharacter(position, glyph)>>)

CallSetLineDrawingCharacters ==
    /\ pc = "idle"
    /\ Enter("SetLineDrawingCharacters", 0, 0, <<>>, SetLineDrawingCharacters)

CallSplash ==
    /\ pc = "idle"
    /\ \E version \in VersionInputs :
        Enter("Splash", 0, 0, version, Splash(version))

\* text holds the slots
CallGetCharacters ==
    /\ pc = "idle"
    /\ \E slots \in SlotInputs :
        LET g == GetCharacters(slots)
        IN  /\ op' = [name |-> "GetCharacters", line |-> 0, char |-> 0, text |-> slots]
            /\ out' = g.str
            /\ errSeen' = FALSE
            /\ wroteAfterErr' = FALSE
            /\ shortSeen' = FALSE
            /\ Done(IF g.panic THEN "panic" ELSE nil, Fresh)
            /\ UNCHANGED <<pert, usb>>

\* text holds the rows as runes, out the Lines of the character returned;
\* the function needs no instance
CallNewX2040Char ==
    /\ pc \in {"start", "idle"}
    /\ \E rows \in GlyphRowInputs :
        LET c == NewX2040Char([k \in 1..Len(rows) |-> RowString(rows[k])])
        IN  /\ op' = [name |-> "NewX2040Char", line |-> 0, char |-> 0, text |-> rows]
            /\ out' = c.char
            /\ errSeen' = FALSE
            /\ wroteAfterErr' = FALSE
            /\ shortSeen' = FALSE
            /\ Done(c.err, Fresh)
            /\ UNCHANGED <<pert, usb>>

\* One write of the whole buffer, whatever its length.
CallWriteGibberish ==
    /\ pc = "idle"
    /\ \E bytes \in TextInputs, n \in {0, 1}, failed \in BOOLEAN :
        /\ op' = [name |-> "WriteGibberish", line |-> 0, char |-> 0, text |-> bytes]
        /\ out' = <<>>
        /\ errSeen' = failed
        /\ wroteAfterErr' = FALSE
        /\ shortSeen' = FALSE
        /\ Done(IF failed THEN TransportError ELSE nil,
                [Fresh EXCEPT !.log = <<WriteEvent(bytes)>>,
                              !.written = n * Len(bytes)])
        /\ UNCHANGED <<pert, usb>>

\* The caller has taken the result and is ready for its next call.  A caller
\* that got an error from NewX2040 has no instance to go on with.
Resume ==
    /\ pc = "done"
    /\ ~(op.name = "NewX2040" /\ result # nil)
    /\ pc' = IF pert.ep = "set" THEN "idle" ELSE "start"
    /\ reported' = 0
    /\ UNCHANGED <<pert, usb>>
    /\ op' = [name |-> "none", line |-> 0, char |-> 0, text |-> <<>>]
    /\ result' = "none"
    /\ out' = <<>>
    /\ todo' = <<>>
    /\ data' = <<>>
    /\ chk' = FALSE
    /\ i' = 0
    /\ written' = 0
    /\ err' = nil
    /\ log' = <<>>
    /\ trans' = <<>>
    /\ errSeen' = FALSE
    /\ wroteAfterErr' = FALSE
    /\ shortSeen' = FALSE

Init ==
    /\ pc = "start"
    /\ pert = NoInstance
    /\ usb = [devOpen |-> FALSE, claimed |-> FALSE, released |-> 0, devCloses |-> 0]
    /\ reported = 0
    /\ op = [name |-> "none", line |-> 0, char |-> 0, text |-> <<>>]
    /\ result = "none"
    /\ out = <<>>
    /\ todo = <<>>
    /\ data = <<>>
    /\ chk = FALSE
    /\ i = 0
    /\ written = 0
    /\ err = nil
    /\ log = <<>>
    /\ trans = <<>>
    /\ errSeen = FALSE
    /\ wroteAfterErr = FALSE
    /\ shortSeen = FALSE

Next ==
    \/ CallNewX2040
    \/ CallClose
    \/ CallOn
    \/ CallOff
    \/ CallClear
    \/ CallLight
    \/ CallPrint
    \/ CallPrintAt
    \/ CallCentered
    \/ CallBlank
    \/ CallSetCharacter
    \/ CallSetLineDrawingCharacters
    \/ CallSplash
    \/ CallGetCharacters
    \/ CallNewX2040Char
    \/ CallWriteGibberish
    \/ WriteByte
    \/ WriteReturn
    \/ Resume

Spec == Init /\ [][Next]_vars

-----------------------------------------------------------------------------
(* Vocabulary of the properties.                                           *)

Min(a, b) == IF a < b THEN a ELSE b

IsPrefix(a, b) == Len(a) <= Len(b) /\ SubSeq(b, 1, Len(a)) = a

RECURSIVE WritesOf(_)
\* The bytes handed to the endpoint by the events l, in order.
WritesOf(l) ==
    IF l = <<>> THEN <<>>
    ELSE (IF l[1].ev = "write" THEN l[1].data ELSE <<>>) \o WritesOf(Tail(l))

\* The number of endpoint writes among the first k events of the log.
WriteIdx(k) == Cardinality({j \in 1..k : log[j].ev = "write"})

RangeErrors == {ErrX2040OutOfRange, ErrX2040InvalidCharacterPosition}

\* 0x80, 0xC0, 0x94, 0xD4
LineOffset == <<128, 192, 148, 212>>

\* [0xFE, opcode] for each opcode
Instructions(opcodes) == [k \in 1..Len(opcodes) |-> <<254, opcodes[k]>>]

-----------------------------------------------------------------------------
(* C1: PrintAt returns the out-of-range error whenever line > 3, or the    *)
(* text is longer than 20 bytes, or column + text length, the true integer *)
(* sum, is greater than 20.  The code adds in uint8, so the sum wraps.     *)
C1_PrintAtRejectsOutOfRange ==
    (op.name = "PrintAt"
        /\ (op.line > 3 \/ Len(op.text) > 20 \/ op.char + Len(op.text) > 20))
    => (pc = "done" /\ result = ErrX2040OutOfRange)

(* C2: when PrintAt, Centered, Blank or SetCharacter returns a range error *)
(* the call has made no write to the endpoint and has not entered Write.   *)
C2_RangeErrorBeforeAnyWrite ==
    (op.name \in {"PrintAt", "Centered", "Blank", "SetCharacter"}
        /\ pc = "done" /\ result \in RangeErrors)
    => (log = <<>> /\ trans = <<>> /\ written = 0)

C2_Witness ==
    /\ op.name = "Centered" /\ op.line = 4 /\ Len(op.text) = 3
    /\ pc = "done" /\ result = ErrX2040OutOfRange

(* C3: On hands to Write the instructions ON, INIT, CLEAR, LIGHT_ON in     *)
(* that order and Off hands LIGHT_OFF, OFF, each as [0xFE, opcode]; the    *)
(* bytes sent of the running instruction are a prefix of it; after a       *)
(* failed write nothing else is written, no later instruction is begun and *)
(* the transport error is what the call returns; a call that returns nil   *)
(* has sent them all, and nothing but these instructions is ever sent.     *)
C3_OnOffInOrder ==
    op.name \in {"On", "Off"} =>
        LET expected == IF op.name = "On" THEN Instructions(<<12, 56, 1, 3>>)
                        ELSE Instructions(<<2, 8>>)
        IN  /\ trans # <<>>
            /\ IsPrefix(trans, expected)
            /\ data = trans[Len(trans)]
            /\ IsPrefix(WritesOf(log), data)
            /\ Len(trans) + Len(todo) = Len(expected) \/ pc = "done"
            /\ errSeen => /\ pc \in {"Return", "done"}
                          /\ ~wroteAfterErr
                          /\ pc = "done" => (result = TransportError /\ todo = <<>>)
            /\ (pc = "done" /\ result = nil)
                  => (trans = expected /\ WritesOf(log) = data /\ ~errSeen)
            /\ (pc = "done" /\ result # nil) => (errSeen \/ shortSeen)

C3_Witness ==
    /\ op.name = "On" /\ pc = "done" /\ result = TransportError
    /\ Len(trans) = 3 /\ trans[3] = <<254, 1>>

(* C4: every endpoint write made by a method other than WriteGibberish     *)
(* carries exactly one byte.                                               *)
C4_SingleByteWrites ==
    op.name # "WriteGibberish" =>
        \A k \in 1..Len(log) : log[k].ev = "write" => Len(log[k].data) = 1

C4_Witness ==
    /\ op.name = "Splash" /\ Len(trans) = 8 /\ Len(WritesOf(log)) = 22

(* C5, as stated: each of the first three bytes of a transmission is       *)
(* followed by a delay before the next byte is written, and from the       *)
(* fourth byte on consecutive bytes have no delay between them.            *)
C5_DelayAfterFirstThree ==
    op.name # "WriteGibberish" =>
        \A k \in 1..(Len(log) - 1) :
            log[k].ev = "write" =>
                IF WriteIdx(k) <= 3 THEN log[k + 1].ev = "delay"
                ELSE log[k + 1].ev = "write"

(* C5, as amended: each of the first three bytes of a transmission is      *)
(* preceded by a delay that comes after the byte before it, if any, has    *)
(* been written; so there is a delay before byte 1, between bytes 1 and 2  *)
(* and between bytes 2 and 3, and from the third byte on consecutive bytes *)
(* are written with no delay between them.                                 *)
C5_DelayBeforeFirstThree ==
    op.name # "WriteGibberish" =>
        \A k \in 1..Len(log) :
            /\ log[k].ev = "write" =>
                  (WriteIdx(k) <= 3 <=> (k > 1 /\ log[k - 1].ev = "delay"))
            /\ log[k].ev = "delay" => (k < Len(log) /\ log[k + 1].ev = "write")

C5_Witness ==
    /\ op.name = "PrintAt" /\ Len(op.text) = 4 /\ pc = "done" /\ result = nil
    /\ Len(WritesOf(log)) = 6 /\ Len(log) = 9

(* C6: a transmitting method returns the unknown-write error when some     *)
(* endpoint write returned a count other than 1 and no transport error     *)
(* occurred.  Only inst looks at the count.                                *)
C6_ShortWriteIsReported ==
    (op.name \in {"On", "Off", "Clear", "Light", "Print", "PrintAt", "Centered",
                  "Blank", "SetCharacter"}
        /\ pc = "done" /\ shortSeen /\ ~errSeen)
    => result = ErrX2040UnknownWriteError

(* C7: when an endpoint write fails, the method makes no further endpoint  *)
(* write and returns that error to its caller.  SetLineDrawingCharacters   *)
(* and Splash drop the errors and go on.                                   *)
C7_WriteErrorEndsTheCall ==
    errSeen => /\ ~wroteAfterErr
               /\ pc \in {"Return", "done"}
               /\ pc = "done" => result = TransportError

(* C8: for line in 0..3 and column + length <= 20, PrintAt never returns a *)
(* range error, hands to Write exactly 0xFE, lineOffset[line] + column and *)
(* the text, sends a prefix of that buffer at every moment, and when no    *)
(* write fails it returns nil having sent the whole buffer.                *)
C8_PrintAtTransmits ==
    (op.name = "PrintAt" /\ op.line <= 3 /\ op.char + Len(op.text) <= 20) =>
        LET expected == <<254, LineOffset[op.line + 1] + op.char>> \o op.text
        IN  /\ trans = <<expected>>
            /\ IsPrefix(WritesOf(log), expected)
            /\ pc = "done" => result \in {nil, TransportError}
            /\ (pc = "done" /\ ~errSeen) => (result = nil /\ WritesOf(log) = expected)

C8_Witness ==
    /\ op.name = "PrintAt" /\ op.line = 0 /\ op.char = 14 /\ Len(op.text) = 6
    /\ pc = "done" /\ result = nil /\ Len(WritesOf(log)) = 8

(* C9: GetCharacters returns, for any number of slots, a string of         *)
(* min(number of slots, 20) bytes whose k-th byte is the k-th slot plus 1. *)
(* The loop of the code runs over all the slots and indexes past the end   *)
(* of the 20 byte output.                                                  *)
C9_GetCharactersCapped ==
    (op.name = "GetCharacters" /\ pc = "done") =>
        /\ result = nil
        /\ Len(out) = Min(Len(op.text), 20)
        /\ \A k \in 1..Len(out) : out[k] = op.text[k] + 1

(* C10: SetCharacter returns the invalid-position error for a slot above 6 *)
(* and sends nothing; for slot 0..6 it hands to Write exactly 0xFE, the    *)
(* address 72 + slot*8 and the 8 rows, 10 bytes, sends a prefix of them at *)
(* every moment and all of them when no write fails.                       *)
C10_SetCharacterTransmits ==
    op.name = "SetCharacter" =>
        IF op.char > 6
        THEN /\ pc = "done" /\ result = ErrX2040InvalidCharacterPosition
             /\ log = <<>> /\ trans = <<>>
        ELSE LET expected == <<254, 72 + op.char * 8>> \o op.text
             IN  /\ Len(expected) = 10
                 /\ trans = <<expected>>
                 /\ IsPrefix(WritesOf(log), expected)
                 /\ pc = "done" => result \in {nil, TransportError}
                 /\ (pc = "done" /\ ~errSeen)
                       => (result = nil /\ WritesOf(log) = expected)

C10_Witness ==
    /\ op.name = "SetCharacter" /\ op.char = 6 /\ pc = "done" /\ result = nil
    /\ WritesOf(log) = <<254, 120>> \o op.text

(* C11: for line in 0..3, Centered of a text of n <= 20 bytes hands to     *)
(* Write the buffer of PrintAt at column floor((20 - n) / 2), that is 0xFE,*)
(* lineOffset[line] + floor((20 - n) / 2) and the text, and never returns  *)
(* a range error; for n > 20 it returns the out-of-range error and sends   *)
(* nothing.                                                                *)
C11_CenteredColumn ==
    (op.name = "Centered" /\ op.line <= 3) =>
        IF Len(op.text) > 20
        THEN /\ pc = "done" /\ result = ErrX2040OutOfRange
             /\ trans = <<>> /\ log = <<>>
        ELSE LET column == (20 - Len(op.text)) \div 2
                 expected == <<254, LineOffset[op.line + 1] + column>> \o op.text
             IN  /\ trans = <<expected>>
                 /\ IsPrefix(WritesOf(log), expected)
                 /\ pc = "done" => result \notin RangeErrors
                 /\ (pc = "done" /\ ~errSeen)
                       => (result = nil /\ WritesOf(log) = expected)

C11_Witness ==
    /\ op.name = "Centered" /\ op.line = 1 /\ Len(op.text) = 19
    /\ pc = "done" /\ result = nil /\ WritesOf(log)[2] = 192

\* A glyph description of 8 rows of 5 characters (runes) each.
ValidGlyph(rows) == Len(rows) = 8 /\ \A r \in 1..Len(rows) : Len(rows[r]) = 5

(* C12: for every glyph description of 8 rows of 5 characters NewX2040Char *)
(* returns 8 bytes where bit (4 - c) of byte r is set exactly when the     *)
(* character at row r, column c is not a space, and bits 5..7 are zero.    *)
(* A row holding a multi-byte character is refused by the code (C13).      *)
C12_EncodesThePattern ==
    (op.name = "NewX2040Char" /\ pc = "done" /\ ValidGlyph(op.text)) =>
        /\ result = nil
        /\ Len(out) = 8
        /\ \A r \in 1..8 :
              /\ out[r] < 32
              /\ \A c \in 0..4 : Bit(out[r], 4 - c) <=> (op.text[r][c + 1] # 32)

(* C13: NewX2040Char succeeds exactly when it is given 8 rows of exactly 5 *)
(* characters (runes) each; it fails with the want-8-lines error when the  *)
(* number of rows is not 8 and with the width-5 error when some row is not *)
(* 5 characters long.  The code compares the byte length of the row.       *)
C13_ShapeIsCountedInRunes ==
    (op.name = "NewX2040Char" /\ pc = "done") =>
        /\ result = nil <=> ValidGlyph(op.text)
        /\ Len(op.text) # 8 => result = ErrX2040CharWant8Lines
        /\ (Len(op.text) = 8 /\ ~ValidGlyph(op.text)) => result = ErrX2040CharWidth5

(* C14: when NewX2040Char fails on a malformed row, the character returned *)
(* with the error has all 8 bytes zero.  The code returns the rows encoded *)
(* before the malformed one.                                               *)
C14_NoPartialGlyph ==
    (op.name = "NewX2040Char" /\ pc = "done" /\ result = ErrX2040CharWidth5) =>
        out = <<0, 0, 0, 0, 0, 0, 0, 0>>

(* C15: Close on an open instance calls the release function of the        *)
(* interface once and device.Close once, leaves the interface unclaimed    *)
(* and, when device.Close succeeds, the device handle closed; it makes no  *)
(* endpoint write and never enters Write, so nothing reaches the display.  *)
C15_CloseReleasesWithoutWriting ==
    (op.name = "Close" /\ op.line = 1) =>
        /\ pc = "done"
        /\ result \in {nil, TransportError}
        /\ usb.released = 1 /\ usb.devCloses = 1
        /\ ~usb.claimed
        /\ result = nil => ~usb.devOpen
        /\ pert.iface = "nil" /\ pert.ifaceDone = "nil"
        /\ log = <<>> /\ trans = <<>> /\ written = 0

C15_Witness ==
    /\ op.name = "Close" /\ op.line = 1 /\ pc = "done" /\ result = nil
    /\ usb.released = 1 /\ ~usb.devOpen

(* C19: when NewX2040 returns an error no resource it acquired is left     *)
(* held: the device handle is not open and the interface is not claimed.   *)
(* The code returns without closing the device or releasing the interface. *)
C19_NothingHeldAfterFailure ==
    (op.name = "NewX2040" /\ pc = "done" /\ result # nil) =>
        (~usb.devOpen /\ ~usb.claimed)

(* C20: over any sequence of calls the release function is invoked at most *)
(* once, and a Close after a first Close returns instead of crashing.  The *)
(* second Close calls ifaceDone, which the first set to nil.               *)
C20_CloseTwiceReturns ==
    /\ usb.released <= 1
    /\ (op.name = "Close" /\ pc = "done") => result # "panic"

\* The column and the text an addressed call hands to PrintAt.
ColumnOf(call) ==
    IF call.name = "Centered" THEN (20 - Len(call.text)) \div 2
    ELSE IF call.name = "Blank" THEN 0
    ELSE call.char

TextOf(call) == IF call.name = "Blank" THEN [k \in 1..20 |-> 32] ELSE call.text

(* C16: every addressed text write that leaves the driver through PrintAt, *)
(* called directly or through Centered or Blank, has line in 0..3, column  *)
(* in 0..19 and column + length <= 20, so that its address byte lies in    *)
(* lineOffset[line] .. lineOffset[line] + 19; Blank sends the 20 spaces at *)
(* column 0 of its line.  Stated here for the writes of a non-empty text.  *)
(* The wrapped sum of C1 lets a column above 235 through.                  *)
C16_AddressedWritesInGrid ==
    (op.name \in {"PrintAt", "Centered", "Blank"} /\ trans # <<>>
        /\ Len(TextOf(op)) > 0) =>
        /\ op.line \in 0..3
        /\ ColumnOf(op) \in 0..19
        /\ ColumnOf(op) + Len(TextOf(op)) <= 20
        /\ trans[1][2] \in LineOffset[op.line + 1] .. (LineOffset[op.line + 1] + 19)
        /\ op.name = "Blank"
              => trans[1] = <<254, LineOffset[op.line + 1]>> \o [k \in 1..20 |-> 32]

(* C17: while Write sends data, the bytes handed to the endpoint so far    *)
(* are the first bytes of data, in order, one per loop index passed; when  *)
(* the write of the byte at index i fails it is the last byte handed over, *)
(* Write returns at once, and the count it returns is the sum of the       *)
(* counts the endpoint reported for the bytes 0..i.                        *)
C17_WriteSendsAPrefix ==
    (op.name # "WriteGibberish" /\ trans # <<>>) =>
        LET sent == WritesOf(log)
        IN  /\ data = trans[Len(trans)]
            /\ Len(sent) <= Len(data)
            /\ sent = SubSeq(data, 1, Len(sent))
            /\ written = reported
            /\ pc = "Write" => (err = nil /\ Len(sent) = i /\ i < Len(data))
            /\ err # nil => (pc \in {"Return", "done"} /\ Len(sent) = i + 1)
            /\ (err = nil /\ pc \in {"Return", "done"}) => sent = data

C17_Witness ==
    /\ op.name = "PrintAt" /\ Len(data) = 6 /\ pc = "Return" /\ err = TransportError
    /\ i = 3 /\ written = 3 /\ WritesOf(log) = SubSeq(data, 1, 4)

\* The second bytes the driver computes: the address of every cell of the
\* grid, the address of every glyph slot, and the opcodes.
TextAddress(line, column) == PrintAt(line, column, <<>>).data[2]

TextAddresses == {TextAddress(line, column) : line \in 0..3, column \in 0..19}

GlyphAddress(slot) == SetCharacter(slot, <<0, 0, 0, 0, 0, 0, 0, 0>>).data[2]

GlyphAddresses == {GlyphAddress(slot) : slot \in 0..6}

Opcodes == {x2040Clear, x2040LightOff, x2040LightOn, x2040Entry, x2040Off,
            x2040On, x2040Init}

\* The three kinds of second byte share no value, and none is the prefix.
KindsAreDisjoint ==
    /\ \A l1, l2 \in 0..3 : \A c1, c2 \in 0..19 :
          TextAddress(l1, c1) = TextAddress(l2, c2) => (l1 = l2 /\ c1 = c2)
    /\ \A l \in 0..3 : \A c \in 0..19 : TextAddress(l, c) = LineOffset[l + 1] + c
    /\ TextAddresses \subseteq 128..231
    /\ GlyphAddresses = {72 + 8 * slot : slot \in 0..6}
    /\ Opcodes = {1, 2, 3, 6, 8, 12, 56}
    /\ TextAddresses \cap GlyphAddresses = {}
    /\ TextAddresses \cap Opcodes = {}
    /\ GlyphAddresses \cap Opcodes = {}
    /\ 254 \notin (TextAddresses \cup GlyphAddresses \cup Opcodes)

(* C18: the text addresses lineOffset[line] + column, line in 0..3 and     *)
(* column in 0..19, are pairwise distinct and lie in 0x80..0xE7; they are  *)
(* disjoint from the glyph addresses 72 + slot*8, slot in 0..6, and from   *)
(* the opcodes 0x01, 0x02, 0x03, 0x06, 0x08, 0x0C, 0x38; the glyph         *)
(* addresses are disjoint from the opcodes; none of them is 0xFE; and the  *)
(* second byte of every buffer a method hands to Write is of its kind.     *)
C18_SecondByteTellsTheKind ==
    /\ KindsAreDisjoint
    /\ \A k \in 1..Len(trans) :
          /\ trans[k][1] = 254
          /\ op.name \in {"On", "Off", "Clear", "Light", "Print"}
                => trans[k][2] \in Opcodes
          /\ op.name \in {"SetCharacter", "SetLineDrawingCharacters"}
                => trans[k][2] \in GlyphAddresses
          /\ (op.name \in {"PrintAt", "Centered", "Blank"} /\ ColumnOf(op) <= 19)
                => trans[k][2] \in TextAddresses
          /\ op.name = "Splash"
                => trans[k][2] \in IF k <= 7 THEN GlyphAddresses ELSE TextAddresses

C18_Witness ==
    /\ op.name = "PrintAt" /\ op.line = 3 /\ op.char = 19 /\ Len(op.text) = 1
    /\ pc = "done" /\ result = nil /\ WritesOf(log)[2] = 231

=============================================================================
